---- MODULE Spec2Model ----
(***************************************************************************)
(* Model of the symbol_inject core of build_soong                          *)
(* (src/cc/llndk_library.go, lines 266-449): the format dispatcher         *)
(* (OpenFile, DumpSymbols), the symbol resolver (findSymbol) and the       *)
(* patcher (InjectStringSymbol, InjectUint64Symbol, copyAndInject).        *)
(*                                                                         *)
(* Three specifications share the variables:                               *)
(*   SpecOpen     the dispatcher over every combination of reader outcomes *)
(*   SpecResolve  findSymbol over symbol tables whose addresses straddle   *)
(*                the 4096-byte ceiling and the top of the unsigned range  *)
(*   Spec         the patcher, byte by byte, over small files              *)
(* uint64 is modelled as the integers modulo 2^WordBits.                   *)
(***************************************************************************)
EXTENDS Integers, Sequences, FiniteSets, TLC

VARIABLES pc, src, readers, file, call, ret, sink, trace, second, tool

vars == <<pc, src, readers, file, call, ret, sink, trace, second, tool>>

(***************************************************************************)
(* Bounds of the model.                                                    *)
(***************************************************************************)
\* width of the unsigned machine word standing for uint64
WordBits == 16
\* longest symbol table of SpecResolve
MaxSyms == 3

UintMod == 2 ^ WordBits

\* uint64 arithmetic wraps
U64(x) == x % UintMod

\* var maxUint64 uint64 = math.MaxUint64
maxUint64 == UintMod - 1

(***************************************************************************)
(* Errors.  kind "nil" is Go's nil error; who names the reader an error    *)
(* came from; x and y carry the numbers an error message prints.           *)
(***************************************************************************)
Err(kind, who, x, y) == [kind |-> kind, who |-> who, x |-> x, y |-> y]

NilErr == Err("nil", "", 0, 0)

(***************************************************************************)
(* findSymbol                                                              *)
(***************************************************************************)
\* the ceiling of an inferred size: end > symbol.Addr+4096
InferLimit == 4096

\* The inner loop of findSymbol: from position n, the index of the next
\* symbol of symbol i's section with a higher address, or Len+1 (the code's
\* len(file.Symbols)) when the list ends or the section changes first.
\* Indices are 1-based; a Symbol's Section is its index into file.Sections,
\* so that pointer equality is index equality.
RECURSIVE ScanFrom(_, _, _)
ScanFrom(Symbols, i, n) ==
    IF n > Len(Symbols) THEN Len(Symbols) + 1
    ELSE IF Symbols[n].Section # Symbols[i].Section THEN Len(Symbols) + 1
    ELSE IF Symbols[n].Addr > Symbols[i].Addr THEN n
    ELSE ScanFrom(Symbols, i, n + 1)

\* the loop that never leaves at a section change
RECURSIVE ScanFrom_ignoresSection(_, _, _)
ScanFrom_ignoresSection(Symbols, i, n) ==
    IF n > Len(Symbols) THEN Len(Symbols) + 1
    ELSE IF /\ Symbols[n].Section = Symbols[i].Section
            /\ Symbols[n].Addr > Symbols[i].Addr THEN n
    ELSE ScanFrom_ignoresSection(Symbols, i, n + 1)

\* the loop with >= for >: it stops at the matched symbol itself
RECURSIVE ScanFrom_stopsAtEqual(_, _, _)
ScanFrom_stopsAtEqual(Symbols, i, n) ==
    IF n > Len(Symbols) THEN Len(Symbols) + 1
    ELSE IF Symbols[n].Section # Symbols[i].Section THEN Len(Symbols) + 1
    ELSE IF Symbols[n].Addr >= Symbols[i].Addr THEN n
    ELSE ScanFrom_stopsAtEqual(Symbols, i, n + 1)

ScanNext_stopsAtEqual(Symbols, i) == ScanFrom_stopsAtEqual(Symbols, i, i)

ScanNext_ignoresSection(Symbols, i) == ScanFrom_ignoresSection(Symbols, i, i)

\* for n = i; n < len(file.Symbols); n++ { ... }
ScanNext(Symbols, i) == ScanFrom(Symbols, i, i)

\* var end uint64: the next symbol's address, or the section's size
InferredEnd(f, i) ==
    LET n == ScanNext(f.Symbols, i)
    IN  IF n <= Len(f.Symbols) THEN f.Symbols[n].Addr
        ELSE f.Sections[f.Symbols[i].Section].Size

\* offset := symbol.Section.Offset + symbol.Addr, with the section's
\* virtual address taken for its file offset
SymbolOffset_usesSectionAddr(f, i) ==
    U64(f.Sections[f.Symbols[i].Section].Addr + f.Symbols[i].Addr)

\* offset := symbol.Section.Offset + symbol.Addr
SymbolOffset(f, i) ==
    U64(f.Sections[f.Symbols[i].Section].Offset + f.Symbols[i].Addr)

\* the body with the bound taken and tested whatever the recorded size
ResolveAt_alwaysInfers(f, i) ==
    LET symbol == f.Symbols[i]
        end    == InferredEnd(f, i)
    IN  IF end <= symbol.Addr \/ end > U64(symbol.Addr + InferLimit)
        THEN [offset |-> maxUint64, size |-> maxUint64,
              err |-> Err("badEnd", "", symbol.Addr, end)]
        ELSE [offset |-> SymbolOffset(f, i),
              size   |-> IF symbol.Size = 0 THEN end - symbol.Addr
                         ELSE symbol.Size,
              err    |-> NilErr]

\* the body without the 4096-byte ceiling
ResolveAt_noCeiling(f, i) ==
    LET symbol == f.Symbols[i]
        end    == InferredEnd(f, i)
    IN  IF symbol.Size = 0 /\ end <= symbol.Addr
        THEN [offset |-> maxUint64, size |-> maxUint64,
              err |-> Err("badEnd", "", symbol.Addr, end)]
        ELSE [offset |-> SymbolOffset(f, i),
              size   |-> IF symbol.Size = 0 THEN end - symbol.Addr
                         ELSE symbol.Size,
              err    |-> NilErr]

\* The body of findSymbol's `if symbol.Name == symbolName`, for symbol i.
ResolveAt(f, i) ==
    LET symbol == f.Symbols[i]
        end    == InferredEnd(f, i)
    IN  IF /\ symbol.Size = 0
           /\ (end <= symbol.Addr \/ end > U64(symbol.Addr + InferLimit))
        THEN [offset |-> maxUint64, size |-> maxUint64,
              err |-> Err("badEnd", "", symbol.Addr, end)]
        ELSE [offset |-> SymbolOffset(f, i),
              size   |-> IF symbol.Size = 0 THEN end - symbol.Addr
                         ELSE symbol.Size,
              err    |-> NilErr]

NotFound ==
    [offset |-> maxUint64, size |-> maxUint64,
     err |-> Err("notFound", "", 0, 0)]

\* for i, symbol := range file.Symbols { if symbol.Name == symbolName {...} }
RECURSIVE FindFrom(_, _, _)
FindFrom(f, symbolName, i) ==
    IF i > Len(f.Symbols) THEN NotFound
    ELSE IF f.Symbols[i].Name = symbolName THEN ResolveAt(f, i)
    ELSE FindFrom(f, symbolName, i + 1)

\* the range loop run from the last symbol to the first
RECURSIVE FindBack(_, _, _)
FindBack(f, symbolName, i) ==
    IF i < 1 THEN NotFound
    ELSE IF f.Symbols[i].Name = symbolName THEN ResolveAt(f, i)
    ELSE FindBack(f, symbolName, i - 1)

\* the range loop that goes on to the next symbol of the name when the
\* bound of one is rejected
RECURSIVE FindNextGood(_, _, _)
FindNextGood(f, symbolName, i) ==
    IF i > Len(f.Symbols) THEN NotFound
    ELSE IF /\ f.Symbols[i].Name = symbolName
            /\ \/ ResolveAt(f, i).err = NilErr
               \/ \A j \in (i + 1)..Len(f.Symbols) :
                     f.Symbols[j].Name # symbolName
         THEN ResolveAt(f, i)
    ELSE FindNextGood(f, symbolName, i + 1)

findSymbol_skipsRejected(f, symbolName) == FindNextGood(f, symbolName, 1)

findSymbol_lastMatch(f, symbolName) == FindBack(f, symbolName, Len(f.Symbols))

findSymbol(f, symbolName) == FindFrom(f, symbolName, 1)

(***************************************************************************)
(* Values shared by the specifications.                                    *)
(***************************************************************************)
\* type File struct { r; Symbols; Sections }: a *File, nil or not
File(Symbols, Sections, r) ==
    [nil |-> FALSE, Symbols |-> Symbols, Sections |-> Sections, r |-> r]

NilFile == [nil |-> TRUE, Symbols |-> <<>>, Sections |-> <<>>, r |-> <<>>]

\* the call in progress: the operation, its arguments, and for a writer w
\* the number of bytes it takes before it fails (-1: it never fails)
NoCall == [op |-> "", symbol |-> "", value |-> <<>>, from |-> <<>>, cap |-> -1]

NoRet == [offset |-> 0, size |-> 0, err |-> NilErr]

\* what a second operation on the output of an injection gave
NoSecond == [op |-> "", bytes |-> <<>>, err |-> NilErr]

\* the state of pom2bp / pom2mk, when neither runs
NoTool == [name |-> ""]

(***************************************************************************)
(* SpecResolve: findSymbol on the files a reader can hand over.            *)
(***************************************************************************)
\* two addresses within InferLimit of the top of the unsigned range
TopAddr == UintMod - 20

TopNext == UintMod - 10

\* section 1 ends exactly InferLimit after address 0, section 2 one later
ResolveSections ==
    << [Addr |-> 256,  Offset |-> 64,   Size |-> InferLimit],
       [Addr |-> 8448, Offset |-> 8192, Size |-> InferLimit + 1] >>

\* the symbol that is looked up, with a recorded or an unknown size ...
LookedUp ==
    [Name : {"a"}, Addr : {0, 10, TopAddr}, Size : {0, 8, 5000},
     Section : {1, 2}]

\* ... and its neighbours
Neighbours ==
    [Name : {"b"}, Addr : {10, InferLimit, InferLimit + 1, 5000, TopNext},
     Size : {0}, Section : {1, 2}]

SymbolTables ==
    UNION {[1..n -> LookedUp \cup Neighbours] : n \in 0..MaxSyms}

InitResolve ==
    /\ pc = "opened"
    /\ src = <<>>
    /\ readers = <<>>
    /\ \E s \in SymbolTables :
          file = File(s, ResolveSections, <<>>)
    /\ call = NoCall
    /\ ret = NoRet
    /\ sink = <<>>
    /\ trace = <<>>
    /\ second = NoSecond
    /\ tool = NoTool

Resolve ==
    /\ pc = "opened"
    /\ \E symbolName \in {"a"} :
          /\ call' = [NoCall EXCEPT !.op = "findSymbol", !.symbol = symbolName]
          /\ ret' = findSymbol(file, symbolName)
    /\ pc' = "resolved"
    /\ UNCHANGED <<src, readers, file, sink, trace, second, tool>>

NextResolve == Resolve

SpecResolve == InitResolve /\ [][NextResolve]_vars

(***************************************************************************)
(* The byte source: a file of n bytes.  Bytes differ by position, with a   *)
(* zero at every fourth.                                                   *)
(***************************************************************************)
\* longest byte source
MaxSrcLen == 11

SrcByte(i) == IF i % 4 = 0 THEN 0 ELSE 16 + i

Source(n) == [i \in 1..n |-> SrcByte(i)]

Sources == {Source(n) : n \in 0..MaxSrcLen}

(***************************************************************************)
(* The format dispatcher.  The three format readers are collaborators: a   *)
(* reader returns a File, fails with a cantParseError (not this format),   *)
(* or fails with another error (a malformed file of its format).           *)
(***************************************************************************)
Readers == {"elf", "macho", "pe"}

Outcomes == {"ok", "cantParse", "malformed"}

\* what reader `who` returns under outcome o: (file, err)
ReaderResult(who, o) ==
    IF o = "ok"
    THEN [file |-> File(<< [Name |-> who, Addr |-> 0, Size |-> 8,
                            Section |-> 1] >>,
                        << [Addr |-> 0, Offset |-> 0, Size |-> 8] >>, <<>>),
          err |-> NilErr]
    ELSE [file |-> NilFile, err |-> Err(o, who, 0, 0)]

\* the type assertion that takes every error for a cantParseError
IsCantParse_anyError(err) == err.kind # "nil"

\* _, ok := err.(cantParseError)
IsCantParse(err) == err.kind = "cantParse"

\* if err != nil { return nil, err }; file.r = r; return file, err
OpenResult(res, r, calls) ==
    IF res.err.kind # "nil"
    THEN [file |-> NilFile, err |-> res.err, calls |-> calls]
    ELSE [file |-> [res.file EXCEPT !.r = r], err |-> res.err,
          calls |-> calls]

\* the fallback that returns the last reader's error
OpenFile_returnsLastError(r, o) ==
    LET elf == ReaderResult("elf", o["elf"])
        macho == ReaderResult("macho", o["macho"])
        pe == ReaderResult("pe", o["pe"])
    IN  IF IsCantParse(elf.err)
        THEN IF IsCantParse(macho.err)
             THEN OpenResult(pe, r, <<"elf", "macho", "pe">>)
             ELSE OpenResult(macho, r, <<"elf", "macho">>)
        ELSE OpenResult(elf, r, <<"elf">>)

\* the fallback that does not attach the byte source
OpenFile_dropsSource(r, o) ==
    LET elf == ReaderResult("elf", o["elf"])
        macho == ReaderResult("macho", o["macho"])
        pe == ReaderResult("pe", o["pe"])
    IN  IF IsCantParse(elf.err)
        THEN IF IsCantParse(macho.err)
             THEN IF IsCantParse(pe.err)
                  THEN [file |-> NilFile, err |-> elf.err,
                        calls |-> <<"elf", "macho", "pe">>]
                  ELSE [file |-> pe.file, err |-> pe.err,
                        calls |-> <<"elf", "macho", "pe">>]
             ELSE [file |-> macho.file, err |-> macho.err,
                   calls |-> <<"elf", "macho">>]
        ELSE [file |-> elf.file, err |-> elf.err, calls |-> <<"elf">>]

\* func OpenFile(r io.ReaderAt) (*File, error); o gives each reader's
\* outcome on r, calls the readers invoked, in order
OpenFile(r, o) ==
    LET elf == ReaderResult("elf", o["elf"])
    IN  IF IsCantParse(elf.err)
        THEN LET macho == ReaderResult("macho", o["macho"])
             IN  IF IsCantParse(macho.err)
                 THEN LET pe == ReaderResult("pe", o["pe"])
                      IN  IF IsCantParse(pe.err)
                          THEN [file |-> NilFile, err |-> elf.err,
                                calls |-> <<"elf", "macho", "pe">>]
                          ELSE OpenResult(pe, r, <<"elf", "macho", "pe">>)
                 ELSE OpenResult(macho, r, <<"elf", "macho">>)
        ELSE OpenResult(elf, r, <<"elf">>)

\* the dump fallback that returns the last reader's error
DumpSymbols_returnsLastError(r, o) ==
    LET elf == ReaderResult("elf", o["elf"]).err
        macho == ReaderResult("macho", o["macho"]).err
        pe == ReaderResult("pe", o["pe"]).err
    IN  IF IsCantParse(elf)
        THEN IF IsCantParse(macho)
             THEN [err |-> pe, calls |-> <<"elf", "macho", "pe">>]
             ELSE [err |-> macho, calls |-> <<"elf", "macho">>]
        ELSE [err |-> elf, calls |-> <<"elf">>]

\* func DumpSymbols(r io.ReaderAt) error; the dump readers parse as the
\* extracting readers do and return the error alone
DumpSymbols(r, o) ==
    LET elf == ReaderResult("elf", o["elf"]).err
    IN  IF IsCantParse(elf)
        THEN LET macho == ReaderResult("macho", o["macho"]).err
             IN  IF IsCantParse(macho)
                 THEN LET pe == ReaderResult("pe", o["pe"]).err
                      IN  IF IsCantParse(pe)
                          THEN [err |-> elf,
                                calls |-> <<"elf", "macho", "pe">>]
                          ELSE [err |-> pe, calls |-> <<"elf", "macho", "pe">>]
                 ELSE [err |-> macho, calls |-> <<"elf", "macho">>]
        ELSE [err |-> elf, calls |-> <<"elf">>]

InitOpen ==
    /\ pc = "start"
    /\ src \in Sources
    /\ readers \in [Readers -> Outcomes]
    /\ file = NilFile
    /\ call = NoCall
    /\ ret = NoRet
    /\ sink = <<>>
    /\ trace = <<>>
    /\ second = NoSecond
    /\ tool = NoTool

DoOpenFile ==
    /\ pc = "start"
    /\ LET res == OpenFile(src, readers)
       IN  /\ file' = res.file
           /\ ret' = [NoRet EXCEPT !.err = res.err]
           /\ trace' = res.calls
    /\ call' = [NoCall EXCEPT !.op = "OpenFile"]
    /\ pc' = "opened"
    /\ UNCHANGED <<src, readers, sink, second, tool>>

DoDumpSymbols ==
    /\ pc = "start"
    /\ LET res == DumpSymbols(src, readers)
       IN  /\ ret' = [NoRet EXCEPT !.err = res.err]
           /\ trace' = res.calls
    /\ call' = [NoCall EXCEPT !.op = "DumpSymbols"]
    /\ pc' = "dumped"
    /\ UNCHANGED <<src, readers, file, sink, second, tool>>

NextOpen == DoOpenFile \/ DoDumpSymbols

SpecOpen == InitOpen /\ [][NextOpen]_vars

(***************************************************************************)
(* The patcher.  A string is the sequence of its bytes; a uint64 value is  *)
(* its four 16-bit limbs, lowest first; the writer w is the bytes it has   *)
(* taken (sink) and the number it takes before it fails (cap, -1: never).  *)
(***************************************************************************)
\* int64(x) of a uint64
Int64(x) == IF x >= UintMod \div 2 THEN x - UintMod ELSE x

\* 1<<63 - 1
MaxInt64 == UintMod \div 2 - 1

Min(a, b) == IF a < b THEN a ELSE b

Max(a, b) == IF a > b THEN a ELSE b

\* make([]byte, n)
Zeros(n) == [i \in 1..n |-> 0]

\* b := make([]byte, size); copy(b, s): s cut or zero-padded to size bytes
PadTo(s, size) == [i \in 1..size |-> IF i <= Len(s) THEN s[i] ELSE 0]

\* binary.LittleEndian.PutUint64(buf, v): buf[i] = byte(v >> (8*i))
PutUint64(v) ==
    [i \in 1..8 |->
        IF (i - 1) % 2 = 0 THEN v[(i - 1) \div 2 + 1] % 256
        ELSE v[(i - 1) \div 2 + 1] \div 256]

\* What io.Copy reads from io.NewSectionReader(r, off, n): the bytes of r
\* at (0-based) positions off .. off+n-1 that exist.  The read ends
\* silently at the end of r: ReadAt's io.EOF ends io.Copy without error.
SectionBytes(r, off, n) ==
    LET hi == Min(off + n, Len(r))
    IN  [k \in 1..Max(0, hi - off) |-> r[off + k]]

\* w.Write(p), and io.Copy's writes of p: w takes bytes up to its cap and
\* then fails; nothing is written, and nothing fails, when p is empty
Write(out, p, cap) ==
    IF p = <<>> \/ cap < 0 \/ Len(out) + Len(p) <= cap
    THEN [out |-> out \o p, err |-> NilErr]
    ELSE [out |-> out \o SubSeq(p, 1, cap - Len(out)),
          err |-> Err("write", "w", Len(out) + Len(p), cap)]

\* io.Copy(w, io.NewSectionReader(r, off, n)); a negative offset is the
\* read error of r.ReadAt
Copy(out, cap, r, off, n) ==
    IF n > 0 /\ off < 0
    THEN [out |-> out, err |-> Err("read", "r", off, 0)]
    ELSE Write(out, SectionBytes(r, off, n), cap)

\* if err == io.EOF { err = io.ErrUnexpectedEOF }
EofToUnexpected(err) ==
    IF err.kind = "EOF" THEN Err("unexpectedEOF", "", 0, 0) ELSE err

\* copyAndInject without the `if err == nil` guards: every step runs and
\* the last error is returned
copyAndInject_goesOn(r, cap, offset, buf) ==
    LET s1  == Copy(<<>>, cap, r, 0, Int64(offset))
        s2  == Write(s1.out, buf, cap)
        pos == Int64(U64(Int64(offset) + Len(buf)))
        s3  == Copy(s2.out, cap, r, pos, MaxInt64 - pos)
    IN  [out   |-> s3.out,
         err   |-> EofToUnexpected(s3.err),
         steps |-> <<"prefix", "buf", "suffix">>]

\* copyAndInject with a prefix copy that reports a source ending before
\* offset as io.EOF
copyAndInject_rejectsShortPrefix(r, cap, offset, buf) ==
    LET c1  == Copy(<<>>, cap, r, 0, Int64(offset))
        s1  == IF c1.err = NilErr /\ Len(r) < Int64(offset)
               THEN [out |-> c1.out, err |-> Err("EOF", "r", 0, 0)]
               ELSE c1
        s2  == IF s1.err = NilErr THEN Write(s1.out, buf, cap) ELSE s1
        pos == Int64(U64(Int64(offset) + Len(buf)))
        s3  == IF s2.err = NilErr
               THEN Copy(s2.out, cap, r, pos, MaxInt64 - pos)
               ELSE s2
    IN  [out   |-> s3.out,
         err   |-> EofToUnexpected(s3.err),
         steps |-> <<"prefix">>
                   \o (IF s1.err = NilErr THEN <<"buf">> ELSE <<>>)
                   \o (IF s2.err = NilErr THEN <<"suffix">> ELSE <<>>)]

\* func copyAndInject(r io.ReaderAt, w io.Writer, offset uint64, buf []byte)
\* steps lists the writes attempted, in order
copyAndInject(r, cap, offset, buf) ==
    LET s1  == Copy(<<>>, cap, r, 0, Int64(offset))
        s2  == IF s1.err = NilErr THEN Write(s1.out, buf, cap) ELSE s1
        pos == Int64(U64(Int64(offset) + Len(buf)))
        s3  == IF s2.err = NilErr
               THEN Copy(s2.out, cap, r, pos, MaxInt64 - pos)
               ELSE s2
    IN  [out   |-> s3.out,
         err   |-> EofToUnexpected(s3.err),
         steps |-> <<"prefix">>
                   \o (IF s1.err = NilErr THEN <<"buf">> ELSE <<>>)
                   \o (IF s2.err = NilErr THEN <<"suffix">> ELSE <<>>)]

\* file.r.ReadAt(existing, int64(offset)): the bytes, or io.EOF when r ends
\* before len(existing) bytes
ReadAt(r, off, n) ==
    IF off < 0 THEN [bytes |-> Zeros(n), err |-> Err("read", "r", off, 0)]
    ELSE IF off + n > Len(r)
    THEN [bytes |-> PadTo(SectionBytes(r, off, n), n),
          err |-> Err("EOF", "r", 0, 0)]
    ELSE [bytes |-> SectionBytes(r, off, n), err |-> NilErr]

\* an entry point's result when it returns before copyAndInject
Early(found, err) ==
    [offset |-> found.offset, size |-> found.size, err |-> err,
     out |-> <<>>, steps |-> <<>>]

Streamed(found, c) ==
    [offset |-> found.offset, size |-> found.size, err |-> c.err,
     out |-> c.out, steps |-> c.steps]

\* InjectStringSymbol rejecting an expected prior value longer than the
\* symbol
InjectStringSymbol_rejectsLongFrom(f, cap, symbol, value, from) ==
    LET found == findSymbol(f, symbol)
    IN  IF found.err # NilErr THEN Early(found, found.err)
        ELSE IF U64(Len(value)) + 1 > found.size
        THEN Early(found, Err("overflow", "", Len(value), found.size))
        ELSE LET expected == PadTo(from, found.size)
                 existing == ReadAt(f.r, Int64(found.offset), found.size)
             IN  IF from # <<>> /\ existing.err # NilErr
                 THEN Early(found, existing.err)
                 ELSE IF /\ from # <<>>
                         /\ (existing.bytes # expected \/ Len(from) > found.size)
                 THEN Early(found, Err("mismatch", "", 0, 0))
                 ELSE Streamed(found,
                               copyAndInject(f.r, cap, found.offset,
                                             PadTo(value, found.size)))

\* InjectStringSymbol with the capacity test len(value) > size: no room
\* is kept for the terminating nul
InjectStringSymbol_noNulBudget(f, cap, symbol, value, from) ==
    LET found == findSymbol(f, symbol)
    IN  IF found.err # NilErr THEN Early(found, found.err)
        ELSE IF U64(Len(value)) > found.size
        THEN Early(found, Err("overflow", "", Len(value), found.size))
        ELSE LET expected == PadTo(from, found.size)
                 existing == ReadAt(f.r, Int64(found.offset), found.size)
             IN  IF from # <<>> /\ existing.err # NilErr
                 THEN Early(found, existing.err)
                 ELSE IF from # <<>> /\ existing.bytes # expected
                 THEN Early(found, Err("mismatch", "", 0, 0))
                 ELSE Streamed(found,
                               copyAndInject(f.r, cap, found.offset,
                                             PadTo(value, found.size)))

\* InjectStringSymbol comparing only the first len(from) bytes, without
\* the zero padding
InjectStringSymbol_comparesPrefix(f, cap, symbol, value, from) ==
    LET found == findSymbol(f, symbol)
    IN  IF found.err # NilErr THEN Early(found, found.err)
        ELSE IF U64(Len(value)) + 1 > found.size
        THEN Early(found, Err("overflow", "", Len(value), found.size))
        ELSE LET n        == Min(Len(from), found.size)
                 existing == ReadAt(f.r, Int64(found.offset), found.size)
             IN  IF from # <<>> /\ existing.err # NilErr
                 THEN Early(found, existing.err)
                 ELSE IF from # <<>> /\ PadTo(existing.bytes, n) # PadTo(from, n)
                 THEN Early(found, Err("mismatch", "", 0, 0))
                 ELSE Streamed(found,
                               copyAndInject(f.r, cap, found.offset,
                                             PadTo(value, found.size)))

\* func InjectStringSymbol(file *File, w io.Writer, symbol, value, from string)
InjectStringSymbol(f, cap, symbol, value, from) ==
    LET found == findSymbol(f, symbol)
    IN  IF found.err # NilErr THEN Early(found, found.err)
        ELSE IF U64(Len(value)) + 1 > found.size
        THEN Early(found, Err("overflow", "", Len(value), found.size))
        ELSE LET expected == PadTo(from, found.size)
                 existing == ReadAt(f.r, Int64(found.offset), found.size)
             IN  IF from # <<>> /\ existing.err # NilErr
                 THEN Early(found, existing.err)
                 ELSE IF from # <<>> /\ existing.bytes # expected
                 THEN Early(found, Err("mismatch", "", 0, 0))
                 ELSE Streamed(found,
                               copyAndInject(f.r, cap, found.offset,
                                             PadTo(value, found.size)))

\* InjectUint64Symbol testing the size after the stream was written
InjectUint64Symbol_checksLate(f, cap, symbol, value) ==
    LET found == findSymbol(f, symbol)
        c     == copyAndInject(f.r, cap, found.offset, PutUint64(value))
    IN  IF found.err # NilErr THEN Early(found, found.err)
        ELSE IF found.size # 8
        THEN [Streamed(found, c) EXCEPT
                 !.err = Err("notUint64", "", found.size, 0)]
        ELSE Streamed(found, c)

\* InjectUint64Symbol with the size test size < 8
InjectUint64Symbol_acceptsLarger(f, cap, symbol, value) ==
    LET found == findSymbol(f, symbol)
    IN  IF found.err # NilErr THEN Early(found, found.err)
        ELSE IF found.size < 8
        THEN Early(found, Err("notUint64", "", found.size, 0))
        ELSE Streamed(found,
                      copyAndInject(f.r, cap, found.offset, PutUint64(value)))

\* func InjectUint64Symbol(file *File, w io.Writer, symbol string, value uint64)
InjectUint64Symbol(f, cap, symbol, value) ==
    LET found == findSymbol(f, symbol)
    IN  IF found.err # NilErr THEN Early(found, found.err)
        ELSE IF found.size # 8
        THEN Early(found, Err("notUint64", "", found.size, 0))
        ELSE Streamed(found,
                      copyAndInject(f.r, cap, found.offset, PutUint64(value)))

(***************************************************************************)
(* Spec: an opened File (file.r is the byte source) and one injection.     *)
(***************************************************************************)
\* longest symbol table of Spec
MaxInjectSyms == 2

\* one section, the bytes 1..9 of the file
InjectSections == << [Addr |-> 32, Offset |-> 1, Size |-> 9] >>

InjectSymbols ==
    [Name : {"a"}, Addr : {0, 1}, Size : {0, 4, 8}, Section : {1}]
    \cup [Name : {"a"}, Addr : {9}, Size : {0}, Section : {1}]
    \cup [Name : {"b"}, Addr : {3}, Size : {0}, Section : {1}]

InjectTables == UNION {[1..n -> InjectSymbols] : n \in 0..MaxInjectSyms}

\* the string of n bytes 65, 66, ...
Str(n) == [i \in 1..n |-> 64 + i]

StringValues == {Str(n) : n \in {0, 1, 3, 7, 8, 9}}

\* expected prior values: none, the source's bytes at offset 2 (one byte,
\* and three bytes), and a byte the source does not hold
FromValues == {<<>>, <<SrcByte(3)>>, <<SrcByte(3), SrcByte(4), SrcByte(5)>>,
               <<SrcByte(3) + 1>>}

Uint64Values == {<<0, 0, 0, 0>>, <<513, 772, 0, 65535>>}

\* writers: one that never fails, one that fails after 1 byte, one that
\* fails after 5 bytes
WriterCaps == {-1, 1, 5}

Init ==
    /\ pc = "opened"
    /\ src \in Sources
    /\ readers = <<>>
    /\ \E s \in InjectTables : file = File(s, InjectSections, src)
    /\ call = NoCall
    /\ ret = NoRet
    /\ sink = <<>>
    /\ trace = <<>>
    /\ second = NoSecond
    /\ tool = NoTool

DoInjectStringSymbol ==
    /\ pc = "opened"
    /\ \E symbol \in {"a"}, value \in StringValues, from \in FromValues,
          cap \in WriterCaps :
          LET res == InjectStringSymbol(file, cap, symbol, value, from)
          IN  /\ call' = [op |-> "InjectStringSymbol", symbol |-> symbol,
                          value |-> value, from |-> from, cap |-> cap]
              /\ ret' = [offset |-> res.offset, size |-> res.size,
                         err |-> res.err]
              /\ sink' = res.out
              /\ trace' = res.steps
    /\ pc' = "done"
    /\ UNCHANGED <<src, readers, file, second, tool>>

DoInjectUint64Symbol ==
    /\ pc = "opened"
    /\ \E symbol \in {"a"}, value \in Uint64Values, cap \in WriterCaps :
          LET res == InjectUint64Symbol(file, cap, symbol, value)
          IN  /\ call' = [op |-> "InjectUint64Symbol", symbol |-> symbol,
                          value |-> value, from |-> <<>>, cap |-> cap]
              /\ ret' = [offset |-> res.offset, size |-> res.size,
                         err |-> res.err]
              /\ sink' = res.out
              /\ trace' = res.steps
    /\ pc' = "done"
    /\ UNCHANGED <<src, readers, file, second, tool>>

\* The round trip: the symbol is resolved again, in the same symbol model,
\* and size bytes are read at the resolved offset of the output.
DoReadBack ==
    /\ pc = "done"
    /\ ret.err = NilErr
    /\ LET found == findSymbol(file, call.symbol)
           got   == ReadAt(sink, Int64(found.offset), found.size)
       IN  second' = [op |-> "readBack", bytes |-> got.bytes,
                      err |-> IF found.err # NilErr THEN found.err
                              ELSE got.err]
    /\ pc' = "checked"
    /\ UNCHANGED <<src, readers, file, call, ret, sink, trace, tool>>

\* The same injection again, with the output of the first as byte source.
DoInjectAgain ==
    /\ pc = "done"
    /\ ret.err = NilErr
    /\ LET f2  == [file EXCEPT !.r = sink]
           res == IF call.op = "InjectUint64Symbol"
                  THEN InjectUint64Symbol(f2, call.cap, call.symbol,
                                          call.value)
                  ELSE InjectStringSymbol(f2, call.cap, call.symbol,
                                          call.value, call.from)
       IN  second' = [op |-> "injectAgain", bytes |-> res.out,
                      err |-> res.err]
    /\ pc' = "checked"
    /\ UNCHANGED <<src, readers, file, call, ret, sink, trace, tool>>

Next ==
    \/ DoInjectStringSymbol
    \/ DoInjectUint64Symbol
    \/ DoReadBack
    \/ DoInjectAgain

Spec == Init /\ [][Next]_vars

(***************************************************************************)
(* SpecPom: a run of pom2bp or pom2mk over the POM files of a directory.   *)
(* A string is the sequence of its characters.  A regular expression is a  *)
(* literal, anchored at the start of the string ("^lit") or not; a *Pom    *)
(* is an index into tool.heap.                                             *)
(***************************************************************************)
\* most POM files in the directory
MaxPoms == 2

\* s[k..] starts with lit
HasAt(s, lit, k) ==
    /\ k + Len(lit) - 1 <= Len(s)
    /\ SubSeq(s, k, k + Len(lit) - 1) = lit

\* regexp.MatchString(s)
MatchString(re, s) ==
    IF re.anchored THEN HasAt(s, re.lit, 1)
    ELSE \E k \in 1..Len(s) : HasAt(s, re.lit, k)

\* regexp.ReplaceAllString(s, repl): every match, leftmost first and not
\* overlapping, is replaced
RECURSIVE ReplaceFrom(_, _, _, _)
ReplaceFrom(re, s, repl, k) ==
    IF k > Len(s) THEN <<>>
    ELSE IF HasAt(s, re.lit, k) /\ (~re.anchored \/ k = 1)
    THEN repl \o ReplaceFrom(re, s, repl, k + Len(re.lit))
    ELSE <<s[k]>> \o ReplaceFrom(re, s, repl, k + 1)

ReplaceAllString(re, s, repl) == ReplaceFrom(re, s, repl, 1)

\* groupId + ":" + artifactId
Coordinates(groupId, artifactId) == groupId \o <<":">> \o artifactId

\* the search that takes a rule matching groupId:artifactId, wherever it is
\* in the list, before any rule matching artifactId
RECURSIVE RewriteFull(_, _, _, _)
RewriteFull(r, groupId, artifactId, i) ==
    IF i > Len(r) THEN artifactId
    ELSE IF MatchString(r[i].regexp, Coordinates(groupId, artifactId))
    THEN ReplaceAllString(r[i].regexp, Coordinates(groupId, artifactId),
                          r[i].repl)
    ELSE RewriteFull(r, groupId, artifactId, i + 1)

RECURSIVE RewriteArtifact(_, _, _)
RewriteArtifact(r, artifactId, i) ==
    IF i > Len(r) THEN artifactId
    ELSE IF MatchString(r[i].regexp, artifactId)
    THEN ReplaceAllString(r[i].regexp, artifactId, r[i].repl)
    ELSE RewriteArtifact(r, artifactId, i + 1)

MavenToBp_fullFirst(r, groupId, artifactId) ==
    IF \E i \in 1..Len(r) :
          MatchString(r[i].regexp, Coordinates(groupId, artifactId))
    THEN RewriteFull(r, groupId, artifactId, 1)
    ELSE RewriteArtifact(r, artifactId, 1)

\* for _, r := range *r { ... } return artifactId
RECURSIVE RewriteFrom(_, _, _, _)
RewriteFrom(r, groupId, artifactId, i) ==
    IF i > Len(r) THEN artifactId
    ELSE IF MatchString(r[i].regexp, Coordinates(groupId, artifactId))
    THEN ReplaceAllString(r[i].regexp, Coordinates(groupId, artifactId),
                          r[i].repl)
    ELSE IF MatchString(r[i].regexp, artifactId)
    THEN ReplaceAllString(r[i].regexp, artifactId, r[i].repl)
    ELSE RewriteFrom(r, groupId, artifactId, i + 1)

\* func (r *RewriteNames) MavenToBp(groupId string, artifactId string) string
MavenToBp(r, groupId, artifactId) == RewriteFrom(r, groupId, artifactId, 1)

\* func (r *RewriteNames) MavenToMk(groupId string, artifactId string) string
MavenToMk(r, groupId, artifactId) == RewriteFrom(r, groupId, artifactId, 1)

\* Pom.BpName / Pom.MkName, Dependency.BpName / Dependency.MkName
ModuleName(t, groupId, artifactId) ==
    IF t.name = "pom2mk" THEN MavenToMk(t.rewriteNames, groupId, artifactId)
    ELSE MavenToBp(t.rewriteNames, groupId, artifactId)

\* parse(filename): the Pom of the file, with packaging "jar" when the file
\* gives none
Parsed(content, filename) ==
    [PomFile      |-> filename,
     GroupId      |-> content.GroupId,
     ArtifactId   |-> content.ArtifactId,
     Packaging    |-> IF content.Packaging = "" THEN "jar"
                      ELSE content.Packaging,
     Dependencies |-> content.Dependencies]

\* modules[key] = ptr
MapPut(m, key, ptr) ==
    [k \in DOMAIN m \cup {key} |-> IF k = key THEN ptr ELSE m[k]]

\* FixDeps giving every dependency without a type the type "jar"
FixDeps_alwaysJar(t, p, modules) ==
    [p EXCEPT !.Dependencies =
        [k \in 1..Len(p.Dependencies) |->
            LET d == p.Dependencies[k]
            IN  [d EXCEPT
                    !.Type  = IF d.Type = "" THEN "jar" ELSE d.Type,
                    !.Scope = IF d.Scope = "" THEN "compile" ELSE d.Scope]]]

\* func (p *Pom) FixDeps(modules map[string]*Pom)
FixDeps(t, p, modules) ==
    [p EXCEPT !.Dependencies =
        [k \in 1..Len(p.Dependencies) |->
            LET d    == p.Dependencies[k]
                name == ModuleName(t, d.GroupId, d.ArtifactId)
            IN  [d EXCEPT
                    !.Type  = IF d.Type # "" THEN d.Type
                              ELSE IF name \in DOMAIN modules
                              THEN t.heap[modules[name]].Packaging
                              ELSE "jar",
                    !.Scope = IF d.Scope = "" THEN "compile" ELSE d.Scope]]]

\* the loop body with the duplicate test ahead of the exclusion test
Register_duplicateBeforeExclude(t, pom) ==
    LET key  == ModuleName(t, pom.GroupId, pom.ArtifactId)
        ptr  == Len(t.heap) + 1
        seen == {t.keys[k].key : k \in 1..Len(t.keys)}
        dup  == [t EXCEPT
                    !.duplicate = t.duplicate \/ key \in seen,
                    !.keys = Append(t.keys, [file |-> pom.PomFile,
                                             key |-> key])]
    IN  IF key \in t.excludes THEN dup
        ELSE [dup EXCEPT !.heap    = Append(t.heap, pom),
                         !.poms    = Append(t.poms, ptr),
                         !.modules = MapPut(t.modules, key, ptr)]

\* the loop body that fixes the dependencies of a POM as it registers it
Register_fixesAtOnce(t, pom) ==
    LET key == ModuleName(t, pom.GroupId, pom.ArtifactId)
        ptr == Len(t.heap) + 1
    IN  IF key \in t.excludes
        THEN [t EXCEPT !.keys = Append(t.keys, [file |-> pom.PomFile,
                                                key |-> key])]
        ELSE [t EXCEPT
                !.duplicate = t.duplicate \/ key \in DOMAIN t.modules,
                !.heap      = Append(t.heap,
                                     FixDeps(t, pom, t.modules)),
                !.poms      = Append(t.poms, ptr),
                !.modules   = MapPut(t.modules, key, ptr),
                !.keys      = Append(t.keys, [file |-> pom.PomFile,
                                              key |-> key])]

\* main, the body of `if pom != nil { ... }`; keys lists the key computed
\* for each POM
Register(t, pom) ==
    LET key == ModuleName(t, pom.GroupId, pom.ArtifactId)
        ptr == Len(t.heap) + 1
    IN  IF key \in t.excludes
        THEN [t EXCEPT !.keys = Append(t.keys, [file |-> pom.PomFile,
                                                key |-> key])]
        ELSE [t EXCEPT
                !.duplicate = t.duplicate \/ key \in DOMAIN t.modules,
                !.heap      = Append(t.heap, pom),
                !.poms      = Append(t.poms, ptr),
                !.modules   = MapPut(t.modules, key, ptr),
                !.keys      = Append(t.keys, [file |-> pom.PomFile,
                                              key |-> key])]

\* func (p Pom) BpDeps / MkDeps(typeExt string, scopes []string) []string
Deps(t, p, typeExt, scopes) ==
    LET Kept(d) == d.Type = typeExt /\ d.Scope \in scopes
        kept    == SelectSeq(p.Dependencies, Kept)
    IN  [k \in 1..Len(kept) |->
            ModuleName(t, kept[k].GroupId, kept[k].ArtifactId)]

\* what the template writes for a Pom: the module's name and its jar and
\* aar dependencies
Module(t, p) ==
    [name    |-> ModuleName(t, p.GroupId, p.ArtifactId),
     jarDeps |-> Deps(t, p, "jar", {"compile", "runtime"}),
     aarDeps |-> Deps(t, p, "aar", {"compile", "runtime"})]

\* the rewrite rules: "^x" to "z", "g:" to "", "x" to "w"
RuleAnchoredX == [regexp |-> [anchored |-> TRUE, lit |-> <<"x">>],
                  repl |-> <<"z">>]

RuleGroupG == [regexp |-> [anchored |-> FALSE, lit |-> <<"g", ":">>],
               repl |-> <<>>]

RuleAnyX == [regexp |-> [anchored |-> FALSE, lit |-> <<"x">>],
             repl |-> <<"w">>]

\* the -rewrite options of a run, in the order given
RuleLists ==
    {<<>>, <<RuleAnchoredX>>, <<RuleGroupG>>, <<RuleAnyX>>,
     <<RuleAnchoredX, RuleGroupG>>, <<RuleGroupG, RuleAnchoredX>>,
     <<RuleAnchoredX, RuleAnyX>>}

\* the -exclude options of a run
ExcludeSets == {{}, {<<"x">>}}

Dependency(groupId, artifactId, type, scope) ==
    [GroupId |-> groupId, ArtifactId |-> artifactId, Type |-> type,
     Scope |-> scope]

\* the content of a POM file: what parse makes of it (a Pom, nil for a
\* version other than -use-version, or an error), whether the manifest of
\* its aar can be read, and its fields
PomContent(parse, manifest, groupId, artifactId, packaging, deps) ==
    [parse |-> parse, manifest |-> manifest, GroupId |-> groupId,
     ArtifactId |-> artifactId, Packaging |-> packaging,
     Dependencies |-> deps]

PomContents ==
    { PomContent("ok", "ok", <<"g">>, <<"x">>, "aar", <<>>),
      PomContent("ok", "ok", <<"g">>, <<"y">>, "",
                 << Dependency(<<"g">>, <<"x">>, "", ""),
                    Dependency(<<"h">>, <<"x">>, "aar", "test") >>),
      PomContent("ok", "ok", <<"h">>, <<"x">>, "jar",
                 << Dependency(<<"g">>, <<"y">>, "", "test") >>),
      PomContent("ok", "error", <<"h">>, <<"y">>, "aar",
                 << Dependency(<<"g">>, <<"x">>, "", "") >>),
      PomContent("nil", "ok", <<"g">>, <<"y">>, "aar", <<>>),
      PomContent("error", "ok", <<>>, <<>>, "", <<>>) }

\* the sorted list of *.pom files, each with its content
Directories == UNION {[1..n -> PomContents] : n \in 0..MaxPoms}

InitPom ==
    /\ pc = "scan"
    /\ src = <<>>
    /\ readers = <<>>
    /\ file = NilFile
    /\ call = NoCall
    /\ ret = NoRet
    /\ sink = <<>>
    /\ trace = <<>>
    /\ second = NoSecond
    /\ \E name \in {"pom2bp", "pom2mk"}, rules \in RuleLists,
          ex \in ExcludeSets, dir \in Directories :
          tool = [name |-> name, rewriteNames |-> rules, excludes |-> ex,
                  filenames |-> dir, i |-> 1, j |-> 1, heap |-> <<>>,
                  poms |-> <<>>,
                  modules |-> <<>>, keys |-> <<>>, duplicate |-> FALSE,
                  buf |-> <<>>, stdout |-> <<>>, exit |-> -1]

\* os.Exit(code)
Exit(t, code) == [t EXCEPT !.exit = code]

\* if len(filenames) == 0 { ...; os.Exit(1) }
NoPomFiles ==
    /\ pc = "scan"
    /\ tool.filenames = <<>>
    /\ tool' = Exit(tool, 1)
    /\ pc' = "exited"
    /\ UNCHANGED <<src, readers, file, call, ret, sink, trace, second>>

\* one turn of `for _, filename := range filenames`
ScanPom ==
    /\ pc = "scan"
    /\ tool.i <= Len(tool.filenames)
    /\ LET content == tool.filenames[tool.i]
           next    == [tool EXCEPT !.i = tool.i + 1]
       IN  IF content.parse = "error"
           THEN tool' = Exit(tool, 1) /\ pc' = "exited"
           ELSE IF content.parse = "nil"
           THEN tool' = next /\ pc' = "scan"
           ELSE tool' = Register(next, Parsed(content, tool.i))
                /\ pc' = "scan"
    /\ UNCHANGED <<src, readers, file, call, ret, sink, trace, second>>

\* if duplicate { os.Exit(1) }
EndScan ==
    /\ pc = "scan"
    /\ tool.filenames # <<>>
    /\ tool.i > Len(tool.filenames)
    /\ IF tool.duplicate
       THEN tool' = Exit(tool, 1) /\ pc' = "exited"
       ELSE tool' = tool /\ pc' = "fix"
    /\ UNCHANGED <<src, readers, file, call, ret, sink, trace, second>>

\* one turn of `for _, pom := range poms { ...; pom.FixDeps(modules) }`;
\* pom2bp reads the manifest of an aar first
FixPom ==
    /\ pc = "fix"
    /\ tool.j <= Len(tool.poms)
    /\ LET ptr == tool.poms[tool.j]
           pom == tool.heap[ptr]
       IN  IF /\ tool.name = "pom2bp"
              /\ pom.Packaging = "aar"
              /\ tool.filenames[pom.PomFile].manifest = "error"
           THEN tool' = Exit(tool, 1) /\ pc' = "exited"
           ELSE tool' = [tool EXCEPT
                            !.heap[ptr] = FixDeps(tool, pom, tool.modules),
                            !.j = tool.j + 1]
                /\ pc' = "fix"
    /\ UNCHANGED <<src, readers, file, call, ret, sink, trace, second>>

EndFix ==
    /\ pc = "fix"
    /\ tool.j > Len(tool.poms)
    /\ tool' = [tool EXCEPT !.j = 1]
    /\ pc' = "emit"
    /\ UNCHANGED <<src, readers, file, call, ret, sink, trace, second>>

\* one turn of the template loop: pom2bp writes to buf, pom2mk to stdout
EmitPom ==
    /\ pc = "emit"
    /\ tool.j <= Len(tool.poms)
    /\ LET m == Module(tool, tool.heap[tool.poms[tool.j]])
       IN  tool' = IF tool.name = "pom2bp"
                   THEN [tool EXCEPT !.buf = Append(tool.buf, m),
                                     !.j = tool.j + 1]
                   ELSE [tool EXCEPT !.stdout = Append(tool.stdout, m),
                                     !.j = tool.j + 1]
    /\ pc' = "emit"
    /\ UNCHANGED <<src, readers, file, call, ret, sink, trace, second>>

\* the end of main: pom2bp writes the reformatted buf to stdout
Finish ==
    /\ pc = "emit"
    /\ tool.j > Len(tool.poms)
    /\ tool' = IF tool.name = "pom2bp"
               THEN Exit([tool EXCEPT !.stdout = tool.buf], 0)
               ELSE Exit(tool, 0)
    /\ pc' = "exited"
    /\ UNCHANGED <<src, readers, file, call, ret, sink, trace, second>>

NextPom ==
    \/ NoPomFiles
    \/ ScanPom
    \/ EndScan
    \/ FixPom
    \/ EndFix
    \/ EmitPom
    \/ Finish

SpecPom == InitPom /\ [][NextPom]_vars

(***************************************************************************)
(* Properties of the dispatcher (SpecOpen), stated over the outcomes the   *)
(* readers were given.                                                     *)
(***************************************************************************)
Opened == pc = "opened" /\ call.op = "OpenFile"

ReaderOrder == <<"elf", "macho", "pe">>

\* the readers OpenFile is to reach: each one after wrong-format failures
\* of all before it
Reached ==
    {k \in 1..3 : \A j \in 1..(k - 1) : readers[ReaderOrder[j]] = "cantParse"}

\* C3: the readers are invoked in the order ELF, Mach-O, PE, each at most
\* once; Mach-O only after ELF failed as wrong-format, PE only after both
\* did; the first reader that succeeds ends the attempts and its File is
\* returned with the byte source attached.
C3_FixedOrderFirstSuccess ==
    Opened =>
        /\ Len(trace) \in 1..3
        /\ \A k \in 1..Len(trace) : trace[k] = ReaderOrder[k]
        /\ Len(trace) >= 2 => readers["elf"] = "cantParse"
        /\ Len(trace) = 3 =>
              (readers["elf"] = "cantParse" /\ readers["macho"] = "cantParse")
        /\ \A k \in Reached :
              readers[ReaderOrder[k]] = "ok" =>
                  /\ Len(trace) = k
                  /\ ret.err = NilErr
                  /\ ~file.nil
                  /\ file.r = src
                  /\ file.Symbols = ReaderResult(ReaderOrder[k], "ok").file.Symbols
                  /\ file.Sections = ReaderResult(ReaderOrder[k], "ok").file.Sections

\* ELF is not this format, Mach-O succeeds on a non-empty source, and PE
\* (which would succeed too) is not invoked
C3_Witness ==
    /\ Opened
    /\ readers["elf"] = "cantParse" /\ readers["macho"] = "ok"
    /\ readers["pe"] = "ok"
    /\ trace = <<"elf", "macho">>
    /\ ~file.nil /\ file.r = src /\ Len(src) > 0

\* C4: when all three readers fail as wrong-format, OpenFile returns no
\* File and the ELF reader's error.
C4_AllWrongFormatGivesElfError ==
    (Opened /\ \A w \in Readers : readers[w] = "cantParse") =>
        /\ file.nil
        /\ ret.err = ReaderResult("elf", "cantParse").err
        /\ ret.err.who = "elf"

C4_Witness ==
    /\ Opened
    /\ \A w \in Readers : readers[w] = "cantParse"
    /\ trace = ReaderOrder
    /\ file.nil /\ ret.err.who = "elf"

\* C5: a reader that is reached and fails with an error other than
\* wrong-format ends OpenFile: that error is returned, no File, and no
\* later reader is invoked.
C5_OtherErrorPropagatesAtOnce ==
    Opened =>
        \A k \in Reached :
            readers[ReaderOrder[k]] = "malformed" =>
                /\ ret.err = ReaderResult(ReaderOrder[k], "malformed").err
                /\ file.nil
                /\ Len(trace) = k
                /\ \A j \in 1..Len(trace) : trace[j] = ReaderOrder[j]

\* a malformed Mach-O file: its error is returned, not the ELF error, and
\* PE is not invoked
C5_Witness ==
    /\ Opened
    /\ readers["elf"] = "cantParse" /\ readers["macho"] = "malformed"
    /\ ret.err.who = "macho" /\ ret.err.kind = "malformed"
    /\ trace = <<"elf", "macho">>

(***************************************************************************)
(* Properties of the patcher (Spec).  O and L are the resolved offset and  *)
(* the length of the replacement buffer; byte p of a sequence (1-based)    *)
(* is at file position p - 1.                                              *)
(***************************************************************************)
Injected == pc = "done" /\ ret.err = NilErr

PatchO == ret.offset

PatchL == ret.size

\* the 1-based indices of the file positions outside [O, O+L)
Outside(p) == p <= PatchO \/ p > PatchO + PatchL

\* the replacement buffer of the call
PatchB ==
    IF call.op = "InjectUint64Symbol" THEN PutUint64(call.value)
    ELSE PadTo(call.value, PatchL)

\* C1: after a successful injection the sink holds source[0,O), then B,
\* then source[O+L,EOF): B sits at [O,O+L), and outside [O,O+L) the output
\* and the source have the same bytes at the same positions.
C1_OutputIsSourceOutsidePatch ==
    Injected =>
        /\ \A p \in 1..Len(sink) :
              Outside(p) => (p <= Len(src) /\ sink[p] = src[p])
        /\ \A p \in 1..Len(src) :
              Outside(p) => (p <= Len(sink) /\ sink[p] = src[p])
        /\ Len(sink) >= PatchO + PatchL
        /\ SubSeq(sink, PatchO + 1, PatchO + PatchL) = PatchB

\* C2: after a successful injection the number of bytes written equals the
\* length of the source.
C2_OutputLengthIsInputLength ==
    Injected => Len(sink) = Len(src)

(***************************************************************************)
(* Properties of findSymbol (SpecResolve).  The matched symbol, the symbol *)
(* S2 that bounds it and the inferred end are restated here from the       *)
(* symbol table alone.                                                     *)
(***************************************************************************)
Resolved == pc = "resolved"

Matches == {i \in 1..Len(file.Symbols) : file.Symbols[i].Name = call.symbol}

\* the first entry, in reader order, with the name looked up
First == CHOOSE i \in Matches : \A j \in Matches : i <= j

Matched == file.Symbols[First]

MatchedSection == file.Sections[Matched.Section]

\* the later symbols of the matched symbol's section with a greater address
\* that the forward scan reaches before any symbol of another section
Bounding ==
    {n \in First..Len(file.Symbols) :
        /\ file.Symbols[n].Addr > Matched.Addr
        /\ \A k \in First..n : file.Symbols[k].Section = Matched.Section}

S2 == file.Symbols[CHOOSE n \in Bounding : \A m \in Bounding : n <= m]

SizeUnknown == Resolved /\ Matches # {} /\ Matched.Size = 0

Ok == ret.err.kind = "nil"

\* C6: findSymbol resolves the first entry, in reader order, whose name is
\* symbolName (its result is that of resolving this entry: it reports this
\* entry's address on a bad bound, this entry's recorded size when there is
\* one), and fails with symbol-not-found exactly when no entry has the name.
C6_FirstMatchOrNotFound ==
    Resolved =>
        IF Matches = {}
        THEN ret.err.kind = "notFound"
        ELSE /\ ret.err.kind # "notFound"
             /\ ret = ResolveAt(file, First)
             /\ ret.err.kind = "badEnd" => ret.err.x = Matched.Addr
             /\ (Ok /\ Matched.Size # 0) => ret.size = Matched.Size

\* a later entry of the same name at another address, and the first resolved
C6_Witness ==
    /\ Resolved /\ Ok
    /\ \E j \in Matches : j > First /\ file.Symbols[j].Addr # Matched.Addr
    /\ ret.size = Matched.Size

\* no entry has the name: symbol not found
C6_WitnessNotFound ==
    Resolved /\ Matches = {} /\ Len(file.Symbols) > 0

\* C7: for every symbol findSymbol resolves, the returned offset is the
\* owning section's file offset plus the symbol's address, in the unsigned
\* arithmetic of the code, whether the size was recorded or inferred.
C7_OffsetIsSectionOffsetPlusAddr ==
    (Resolved /\ Ok) =>
        /\ Matches # {}
        /\ ret.offset = (MatchedSection.Offset + Matched.Addr) % UintMod
        /\ MatchedSection.Offset + Matched.Addr < UintMod
              => ret.offset = MatchedSection.Offset + Matched.Addr

\* an inferred size, a section at a nonzero file offset, a nonzero address
C7_Witness ==
    /\ SizeUnknown /\ Ok
    /\ Matched.Addr = 10
    /\ ret.offset = MatchedSection.Offset + 10

\* C8: size unknown and a bounding symbol S2 in the same section: the
\* inferred end is S2's address, so a success returns S2.Addr - Addr and a
\* failure is the bad-bound error for the end S2.Addr; a next symbol 10
\* bytes after address 0 gives size 10.
C8_SizeFromNextSymbol ==
    (SizeUnknown /\ Bounding # {}) =>
        /\ Ok => ret.size = S2.Addr - Matched.Addr
        /\ ~Ok => ret.err = Err("badEnd", "", Matched.Addr, S2.Addr)
        /\ (Matched.Addr = 0 /\ S2.Addr = 10) => (Ok /\ ret.size = 10)

\* a same-section symbol at a lower or equal address is skipped on the way
C8_Witness ==
    /\ SizeUnknown /\ Ok /\ Bounding # {}
    /\ ret.size = 10
    /\ \E k \in (First + 1)..Len(file.Symbols) :
          /\ file.Symbols[k].Section = Matched.Section
          /\ file.Symbols[k].Addr <= Matched.Addr
          /\ \E n \in Bounding : k < n

\* C9: size unknown and the scan ends (end of the list, or a symbol of
\* another section) before a bounding symbol: the inferred end is the
\* section's size, so a success returns Section.Size - Addr and a failure
\* is the bad-bound error for the end Section.Size; same-section symbols
\* after the section change are not considered.
C9_SizeFromSectionSize ==
    (SizeUnknown /\ Bounding = {}) =>
        /\ Ok => ret.size = MatchedSection.Size - Matched.Addr
        /\ ~Ok => ret.err = Err("badEnd", "", Matched.Addr, MatchedSection.Size)

\* a same-section symbol with a greater address follows a symbol of another
\* section, and the section's size is used all the same
C9_Witness ==
    /\ SizeUnknown /\ Ok /\ Bounding = {}
    /\ ret.size = MatchedSection.Size - Matched.Addr
    /\ \E k \in First..Len(file.Symbols) :
          /\ file.Symbols[k].Section # Matched.Section
          /\ \E n \in (k + 1)..Len(file.Symbols) :
                /\ file.Symbols[n].Section = Matched.Section
                /\ file.Symbols[n].Addr > Matched.Addr

\* the end address the claims speak of
ClaimedEnd == IF Bounding # {} THEN S2.Addr ELSE MatchedSection.Size

\* C10: size unknown: findSymbol fails with the bad-bound error exactly
\* when the inferred end is <= the address or the inferred size exceeds
\* 4096 bytes.
C10_RejectedExactlyWhenImplausible ==
    SizeUnknown =>
        (ret.err.kind = "badEnd"
            <=> (ClaimedEnd <= Matched.Addr
                 \/ ClaimedEnd - Matched.Addr > InferLimit))

(***************************************************************************)
(* Properties of the two injections (Spec).  The resolved size is restated *)
(* from the symbol table.                                                  *)
(***************************************************************************)
Done == pc = "done"

IsString == call.op = "InjectStringSymbol"

IsUint64 == call.op = "InjectUint64Symbol"

\* findSymbol did not fail
SymbolResolved == Matches # {} /\ ret.err.kind \notin {"notFound", "badEnd"}

\* the size findSymbol is to return: recorded, or inferred
ResolvedSize ==
    IF Matched.Size # 0 THEN Matched.Size ELSE ClaimedEnd - Matched.Addr

\* copyAndInject was entered
Streaming == trace # <<>>

\* the source holds the whole range [O, O+L)
SourceCoversPatch == Len(src) >= PatchO + PatchL

\* C11: after a successful InjectStringSymbol into a symbol of resolved size
\* N, the N output bytes at the symbol's offset are the bytes of value and
\* then N - len(value) zero bytes.
C11_PatchedBytesAreValueThenZeros ==
    (Injected /\ IsString) =>
        /\ Len(sink) >= PatchO + PatchL
        /\ \A i \in 1..PatchL :
              sink[PatchO + i] =
                  IF i <= Len(call.value) THEN call.value[i] ELSE 0

\* C12: InjectStringSymbol fails with the overflow error whenever
\* len(value) + 1 exceeds the resolved size, writing nothing; a success
\* leaves room for the terminating nul, so no value is cut.
C12_OverflowRejected ==
    (Done /\ IsString /\ SymbolResolved) =>
        /\ ret.size = ResolvedSize
        /\ Len(call.value) + 1 > ResolvedSize =>
              /\ ret.err = Err("overflow", "", Len(call.value), ResolvedSize)
              /\ sink = <<>>
              /\ ~Streaming
        /\ ret.err = NilErr => Len(call.value) < ResolvedSize

\* a value of exactly size bytes, for a recorded size of 8
C12_Witness ==
    /\ Done /\ IsString /\ SymbolResolved
    /\ Matched.Size = 8 /\ Len(call.value) = 8
    /\ ret.err.kind = "overflow"

\* the size bytes of the source at the symbol's offset
Existing == SubSeq(src, PatchO + 1, PatchO + PatchL)

\* the expected prior value as size bytes: zero-padded (the first size
\* bytes of a longer one)
Expected ==
    [i \in 1..PatchL |-> IF i <= Len(call.from) THEN call.from[i] ELSE 0]

\* InjectStringSymbol got past the resolution and the capacity test
PastCapacityTest ==
    Done /\ IsString /\ SymbolResolved /\ Len(call.value) + 1 <= ret.size

\* C13: with a non-empty expected prior value the size bytes at the symbol's
\* offset are compared with the zero-padded expected value before any
\* streaming: a mismatch fails with the mismatch error and nothing written,
\* a match goes on to stream (a source that ends inside the symbol fails
\* the read, also with nothing written); with an empty expected prior value
\* nothing is read or compared.
C13_PriorValueChecked ==
    PastCapacityTest =>
        /\ (call.from # <<>> /\ SourceCoversPatch /\ Existing # Expected) =>
              (ret.err.kind = "mismatch" /\ sink = <<>> /\ ~Streaming)
        /\ (call.from # <<>> /\ SourceCoversPatch /\ Existing = Expected) =>
              (ret.err.kind # "mismatch" /\ Streaming)
        /\ (call.from # <<>> /\ ~SourceCoversPatch) =>
              (ret.err.kind = "EOF" /\ sink = <<>> /\ ~Streaming)
        /\ call.from = <<>> =>
              (ret.err.kind \notin {"mismatch", "EOF"} /\ Streaming)

\* the expected byte is there, the zero padding is not: a mismatch
C13_Witness ==
    /\ PastCapacityTest /\ SourceCoversPatch
    /\ call.from # <<>> /\ Len(call.from) < PatchL
    /\ \A i \in 1..Len(call.from) : Existing[i] = call.from[i]
    /\ ret.err.kind = "mismatch"
    /\ sink = <<>>

\* C14: InjectUint64Symbol fails with the not-a-uint64 error whenever the
\* resolved size, recorded or inferred, is not 8, and then writes nothing.
C14_Uint64NeedsEightBytes ==
    (Done /\ IsUint64 /\ SymbolResolved) =>
        /\ ret.size = ResolvedSize
        /\ ResolvedSize # 8 =>
              /\ ret.err = Err("notUint64", "", ResolvedSize, 0)
              /\ sink = <<>>
              /\ ~Streaming
        /\ ResolvedSize = 8 => (ret.err.kind # "notUint64" /\ Streaming)

\* an inferred size above 8
C14_Witness ==
    /\ Done /\ IsUint64 /\ SymbolResolved
    /\ Matched.Size = 0 /\ ResolvedSize > 8
    /\ ret.err.kind = "notUint64"

\* a recorded size of 4
C14_WitnessRecorded ==
    /\ Done /\ IsUint64 /\ SymbolResolved
    /\ Matched.Size = 4
    /\ ret.err.kind = "notUint64"

\* byte i (0..7) of the 64-bit value v: (v div 2^(8i)) mod 256, v being the
\* sum of its limbs v[k] * 2^(16 (k-1))
LittleEndianByte(v, i) == (v[(8 * i) \div 16 + 1] \div 2 ^ ((8 * i) % 16)) % 256

\* C15: after a successful InjectUint64Symbol of v the 8 output bytes at
\* the symbol's offset are v in little-endian order.
C15_PatchedBytesAreLittleEndian ==
    (Injected /\ IsUint64) =>
        /\ Len(sink) >= PatchO + 8
        /\ \A i \in 0..7 :
              sink[PatchO + i + 1] = LittleEndianByte(call.value, i)

\* C16: when the source ends before O, or before O+L, the injection fails
\* (with io.ErrUnexpectedEOF, unless the writer failed first) instead of
\* returning success.
C16_TruncationIsAnError ==
    (Done /\ Streaming /\ ~SourceCoversPatch) =>
        /\ ret.err # NilErr
        /\ call.cap < 0 => ret.err.kind = "unexpectedEOF"

Checked(op) == pc = "checked" /\ second.op = op

\* C19: after a successful injection, resolving the symbol against the
\* output and reading size bytes at the resolved offset yields the injected
\* representation.
C19_ReadBackYieldsInjected ==
    Checked("readBack") =>
        /\ second.err = NilErr
        /\ second.bytes = PatchB

\* C20: injecting the same value again into the output of a successful
\* injection gives, when it succeeds, the same bytes.
C20_InjectAgainIsIdentity ==
    (Checked("injectAgain") /\ second.err = NilErr) => second.bytes = sink

(***************************************************************************)
(* More properties of findSymbol (SpecResolve).                            *)
(***************************************************************************)
\* C17: for a resolved symbol with a recorded size S, the range
\* [offset, offset+S) lies within the section's range in the file,
\* [Section.Offset, Section.Offset + Section.Size).
C17_RecordedRangeWithinSection ==
    (Resolved /\ Ok /\ Matches # {} /\ Matched.Size # 0) =>
        /\ ret.offset >= MatchedSection.Offset
        /\ ret.offset + ret.size <= MatchedSection.Offset + MatchedSection.Size

\* C18: a recorded size other than 0 is returned as it is, whatever symbols
\* follow: no bound is inferred and neither the end <= address test nor the
\* 4096-byte ceiling is applied.
C18_RecordedSizeReturnedUnchecked ==
    (Resolved /\ Matches # {} /\ Matched.Size # 0) =>
        /\ Ok
        /\ ret.size = Matched.Size

\* a recorded size above the ceiling, and a next symbol that would give an
\* end <= address
C18_Witness ==
    /\ Resolved /\ Matches # {} /\ Ok
    /\ Matched.Size > InferLimit /\ ret.size = Matched.Size
    /\ Bounding = {}
    /\ MatchedSection.Size <= Matched.Addr
\* the first match has no recorded size and its bound is at or below its
\* address, or more than 4096 above it
FirstMatchImplausible ==
    /\ SizeUnknown
    /\ \/ ClaimedEnd <= Matched.Addr
       \/ /\ ClaimedEnd > Matched.Addr + InferLimit
          /\ Matched.Addr + InferLimit < UintMod

\* the later symbols of the name that have a recorded size
LaterRecorded == {j \in Matches : j > First /\ file.Symbols[j].Size # 0}

\* C27: only the first symbol of the name counts: when its bound is
\* implausible the call fails with the bad-bound error for that symbol,
\* whatever later symbols of the name there are.
C27_FirstMatchFailureIsFinal ==
    FirstMatchImplausible =>
        /\ ret.err = Err("badEnd", "", Matched.Addr, ClaimedEnd)
        /\ ret.offset = maxUint64
        /\ ret.size = maxUint64

\* a later symbol of the name has a recorded size and would resolve
C27_Witness ==
    /\ FirstMatchImplausible
    /\ LaterRecorded # {}
    /\ ret.err.kind = "badEnd"

\* C28: in the wrapping arithmetic of the bound test, every inferred size
\* that is returned is in 1..4096 and is the distance from the address to
\* the bound, for every address, those within 4096 of the top of the
\* unsigned range included.
C28_InferredSizeInRange ==
    (SizeUnknown /\ Ok) =>
        /\ ret.size \in 1..InferLimit
        /\ ret.size = ClaimedEnd - Matched.Addr

\* the largest size that is accepted
C28_Witness ==
    /\ SizeUnknown /\ Ok
    /\ ret.size = InferLimit

\* an address within 4096 of the top of the range, bounded 10 above: the
\* sum Addr + 4096 wraps and nothing is returned
C28_WitnessTop ==
    /\ SizeUnknown /\ ~Ok
    /\ Matched.Addr = TopAddr /\ ClaimedEnd = TopNext
(***************************************************************************)
(* More properties of the injections (Spec).                               *)
(***************************************************************************)
\* the first symbol of the name has no recorded size and its bound is at or
\* below its address or more than 4096 above it
BoundImplausible ==
    /\ Matches # {}
    /\ Matched.Size = 0
    /\ (ClaimedEnd <= Matched.Addr \/ ClaimedEnd - Matched.Addr > InferLimit)

EarlyFailures == {"notFound", "badEnd", "overflow", "notUint64"}

\* C21: a failure found before streaming (no symbol of the name, an
\* implausible inferred bound, a value that overflows the symbol, a size
\* other than 8 for a 64-bit value) is returned with nothing written to
\* the sink.
C21_EarlyFailureWritesNothing ==
    Done =>
        /\ Matches = {} => ret.err.kind = "notFound"
        /\ BoundImplausible => ret.err.kind = "badEnd"
        /\ ret.err.kind \in EarlyFailures => (sink = <<>> /\ ~Streaming)
        /\ sink # <<>> => Streaming

\* the bound of the symbol is its own address
C21_Witness ==
    /\ Done /\ BoundImplausible
    /\ Len(src) > 0
    /\ ret.err.kind = "badEnd"
    /\ sink = <<>>

\* no symbol of the name in a table that is not empty
C21_WitnessNotFound ==
    /\ Done /\ Matches = {} /\ Len(file.Symbols) > 0
    /\ Len(src) > 0
    /\ ret.err.kind = "notFound"
    /\ sink = <<>>

\* the bytes the three steps are to write: source[0, O), B, source[O+L, EOF)
PrefixBytes == SubSeq(src, 1, Min(PatchO, Len(src)))

SuffixBytes == SubSeq(src, PatchO + PatchL + 1, Len(src))

FullOutput == PrefixBytes \o PatchB \o SuffixBytes

\* the writer fails within the stream
WriterFails == call.cap >= 0 /\ Len(FullOutput) > call.cap

StepOrder == <<"prefix", "buf", "suffix">>

\* the step in which the writer fails
FailingStep ==
    IF call.cap < Len(PrefixBytes) THEN 1
    ELSE IF call.cap < Len(PrefixBytes) + PatchL THEN 2
    ELSE 3

\* C25: the steps run in the order prefix copy, replacement write, suffix
\* copy; a step that fails is the last one to run, its error is returned,
\* and the bytes written up to the failure stay in the sink.
C25_StepsInOrderStopAtError ==
    (Done /\ Streaming) =>
        /\ Len(trace) \in 1..3
        /\ \A k \in 1..Len(trace) : trace[k] = StepOrder[k]
        /\ ~WriterFails =>
              (trace = StepOrder /\ sink = FullOutput /\ ret.err = NilErr)
        /\ WriterFails =>
              /\ Len(trace) = FailingStep
              /\ ret.err.kind = "write"
              /\ sink = SubSeq(FullOutput, 1, call.cap)

\* the writer fails in the middle of the replacement buffer: the prefix and
\* a part of the buffer stay in the sink, the suffix copy does not run
C25_Witness ==
    /\ Done /\ Streaming /\ WriterFails
    /\ trace = <<"prefix", "buf">>
    /\ Len(PrefixBytes) > 0
    /\ Len(sink) > Len(PrefixBytes)
    /\ Len(src) > PatchO + PatchL
    /\ ret.err.kind = "write"

\* the writer fails in the prefix copy: neither the buffer nor the suffix
\* is written
C25_WitnessPrefix ==
    /\ Done /\ Streaming /\ WriterFails
    /\ trace = <<"prefix">>
    /\ sink = <<src[1]>>
    /\ ret.err.kind = "write"

\* the writer fails in the suffix copy
C25_WitnessSuffix ==
    /\ Done /\ Streaming /\ WriterFails
    /\ trace = StepOrder
    /\ Len(sink) > PatchO + PatchL
    /\ ret.err.kind = "write"

\* C29: an expected prior value longer than the resolved size is cut to
\* size bytes before the comparison: the check passes when the size bytes
\* at the offset are the first size bytes of the expected value, and fails
\* as a mismatch when they are not.
C29_LongExpectedValueIsCut ==
    (PastCapacityTest /\ Len(call.from) > PatchL /\ SourceCoversPatch) =>
        IF Existing = SubSeq(call.from, 1, PatchL)
        THEN ret.err.kind # "mismatch" /\ Streaming
        ELSE ret.err.kind = "mismatch" /\ ~Streaming

\* three expected bytes for a symbol of two: the injection succeeds
C29_Witness ==
    /\ PastCapacityTest /\ SourceCoversPatch
    /\ Len(call.from) = 3 /\ PatchL = 2
    /\ Existing = SubSeq(call.from, 1, 2)
    /\ call.from[3] # 0
    /\ ret.err = NilErr

\* the number of occurrences of step s in the trace
Times(s) == Cardinality({k \in 1..Len(trace) : trace[k] = s})

\* C30: when the prefix copy returns without error the replacement buffer
\* is written, once, whatever the length of the source; with a writer that
\* never fails the call succeeds and the number of bytes written is
\* min(O, len(source)) + L + max(0, len(source) - (O + L)).
C30_BufferWrittenOnceAnyLength ==
    (Done /\ Streaming) =>
        /\ (call.cap < 0 \/ Len(PrefixBytes) <= call.cap) => Times("buf") = 1
        /\ Times("buf") <= 1
        /\ call.cap < 0 =>
              /\ ret.err = NilErr
              /\ Len(sink) = Min(PatchO, Len(src)) + PatchL
                             + Max(0, Len(src) - (PatchO + PatchL))
              /\ SubSeq(sink, Min(PatchO, Len(src)) + 1,
                        Min(PatchO, Len(src)) + PatchL) = PatchB

\* a source that ends before O: its bytes, then the whole buffer
C30_Witness ==
    /\ Done /\ Streaming /\ call.cap < 0
    /\ 0 < Len(src) /\ Len(src) < PatchO
    /\ ret.err = NilErr
    /\ Len(sink) = Len(src) + PatchL

\* a source that ends inside [O, O+L)
C30_WitnessInside ==
    /\ Done /\ Streaming /\ call.cap < 0
    /\ PatchO < Len(src) /\ Len(src) < PatchO + PatchL
    /\ ret.err = NilErr
    /\ Len(sink) = PatchO + PatchL

(***************************************************************************)
(* More properties of the dispatcher (SpecOpen).                           *)
(***************************************************************************)
Dumped == pc = "dumped" /\ call.op = "DumpSymbols"

\* the reader that ends the fallback: the first reached one that does not
\* fail as wrong-format, or the last
StopsAt ==
    IF readers["elf"] # "cantParse" THEN 1
    ELSE IF readers["macho"] # "cantParse" THEN 2
    ELSE 3

\* C22: for every combination of reader outcomes DumpSymbols invokes the
\* formats OpenFile invokes, in the same order, stops where OpenFile stops,
\* fails exactly when OpenFile fails, and with the error of the same
\* format: the ELF error when all three are wrong-format.
C22_DumpFallsBackAsOpenFile ==
    Dumped =>
        /\ trace = OpenFile(src, readers).calls
        /\ ret.err = OpenFile(src, readers).err
        /\ trace = SubSeq(ReaderOrder, 1, StopsAt)
        /\ (\A w \in Readers : readers[w] = "cantParse") =>
              ret.err = ReaderResult("elf", "cantParse").err

\* all three readers fail as wrong-format: the ELF error
C22_Witness ==
    /\ Dumped
    /\ \A w \in Readers : readers[w] = "cantParse"
    /\ trace = ReaderOrder
    /\ ret.err.who = "elf"

\* the Mach-O reader succeeds and the PE reader is not invoked
C22_WitnessSuccess ==
    /\ Dumped
    /\ readers["elf"] = "cantParse" /\ readers["macho"] = "ok"
    /\ trace = <<"elf", "macho">>
    /\ ret.err = NilErr
(***************************************************************************)
(* Properties of pom2bp and pom2mk (SpecPom).  The module name of a Maven  *)
(* project is restated from the list of rules.                             *)
(***************************************************************************)
PomRun == tool.name # ""

Rules == tool.rewriteNames

\* the rules whose regex matches groupId:artifactId or artifactId
Hits(groupId, artifactId) ==
    {k \in 1..Len(Rules) :
        \/ MatchString(Rules[k].regexp, Coordinates(groupId, artifactId))
        \/ MatchString(Rules[k].regexp, artifactId)}

FirstHit(groupId, artifactId) ==
    CHOOSE k \in Hits(groupId, artifactId) :
        \A j \in Hits(groupId, artifactId) : k <= j

\* the name the first matching rule gives, or artifactId
ExpectedName(groupId, artifactId) ==
    IF Hits(groupId, artifactId) = {} THEN artifactId
    ELSE LET rule == Rules[FirstHit(groupId, artifactId)]
             full == Coordinates(groupId, artifactId)
         IN  IF MatchString(rule.regexp, full)
             THEN ReplaceAllString(rule.regexp, full, rule.repl)
             ELSE ReplaceAllString(rule.regexp, artifactId, rule.repl)

Content(k) == tool.filenames[k]

\* C23: the rules are searched in the order given and the first whose
\* regex matches groupId:artifactId or artifactId gives the name, applied
\* to groupId:artifactId when that matches and to artifactId otherwise; an
\* earlier rule matching only artifactId wins over a later rule matching
\* groupId:artifactId; with no matching rule the name is artifactId.
C23_FirstMatchingRuleWins ==
    PomRun =>
        \A e \in 1..Len(tool.keys) :
            LET c   == Content(tool.keys[e].file)
                key == tool.keys[e].key
            IN  /\ key = ExpectedName(c.GroupId, c.ArtifactId)
                /\ Hits(c.GroupId, c.ArtifactId) = {} => key = c.ArtifactId
                /\ (/\ Rules = <<RuleAnchoredX, RuleGroupG>>
                    /\ c.GroupId = <<"g">> /\ c.ArtifactId = <<"x">>)
                      => key = <<"z">>
                /\ (/\ Rules = <<RuleGroupG, RuleAnchoredX>>
                    /\ c.GroupId = <<"g">> /\ c.ArtifactId = <<"x">>)
                      => key = <<"x">>
                /\ (/\ Rules = <<RuleAnyX>>
                    /\ c.GroupId = <<"g">> /\ c.ArtifactId = <<"x">>)
                      => key = <<"g", ":", "w">>

\* "^x" before "g:" for g:x: the first rule matches x alone, the second
\* would match g:x
C23_Witness ==
    /\ PomRun
    /\ Rules = <<RuleAnchoredX, RuleGroupG>>
    /\ \E e \in 1..Len(tool.keys) :
          /\ Content(tool.keys[e].file).GroupId = <<"g">>
          /\ Content(tool.keys[e].file).ArtifactId = <<"x">>
          /\ tool.keys[e].key = <<"z">>

\* the files of the directory that parse to a Pom whose module is not
\* excluded
Kept ==
    {k \in 1..Len(tool.filenames) :
        /\ Content(k).parse = "ok"
        /\ ExpectedName(Content(k).GroupId, Content(k).ArtifactId)
              \notin tool.excludes}

NameOfFile(k) == ExpectedName(Content(k).GroupId, Content(k).ArtifactId)

\* two kept files among the first n with the same module name
DuplicateAmong(n) ==
    \E a, b \in Kept : a < b /\ b <= n /\ NameOfFile(a) = NameOfFile(b)

NoParseError == \A k \in 1..Len(tool.filenames) : Content(k).parse # "error"

Written == tool.buf \o tool.stdout

C24_WitnessExcluded ==
    /\ PomRun /\ pc = "exited" /\ tool.exit = 0
    /\ \E a, b \in 1..Len(tool.filenames) :
          /\ a < b
          /\ Content(a).parse = "ok" /\ Content(b).parse = "ok"
          /\ NameOfFile(a) \in tool.excludes
          /\ NameOfFile(a) = NameOfFile(b)
    /\ ~tool.duplicate

\* the kept files whose module name is that of dependency d
Providers(d) ==
    {k \in Kept : NameOfFile(k) = ExpectedName(d.GroupId, d.ArtifactId)}

PackagingOfFile(k) ==
    IF Content(k).Packaging = "" THEN "jar" ELSE Content(k).Packaging

\* every Pom of the list has been through FixDeps
Fixed == PomRun /\ (pc = "emit" \/ (pc = "exited" /\ tool.exit = 0))

\* C26: FixDeps runs when every POM is registered: a dependency without a
\* type gets the packaging of the POM registered under its module name,
\* wherever in the directory that POM is, and "jar" when there is none; a
\* dependency without a scope gets "compile"; a type or scope that was
\* given stays; afterwards no dependency is without type or scope.
C26_FixDepsAfterRegistration ==
    Fixed =>
        \A k \in 1..Len(tool.poms) :
            LET p == tool.heap[tool.poms[k]]
                c == Content(p.PomFile)
            IN  /\ Len(p.Dependencies) = Len(c.Dependencies)
                /\ \A n \in 1..Len(c.Dependencies) :
                      LET was == c.Dependencies[n]
                          now == p.Dependencies[n]
                      IN  /\ now.GroupId = was.GroupId
                          /\ now.ArtifactId = was.ArtifactId
                          /\ now.Type # "" /\ now.Scope # ""
                          /\ was.Type # "" => now.Type = was.Type
                          /\ was.Scope # "" => now.Scope = was.Scope
                          /\ was.Scope = "" => now.Scope = "compile"
                          /\ (was.Type = "" /\ Providers(was) = {})
                                => now.Type = "jar"
                          /\ was.Type = "" =>
                                \A q \in Providers(was) :
                                    now.Type = PackagingOfFile(q)

\* the POM of the dependency comes after the POM that depends on it
C26_Witness ==
    /\ Fixed
    /\ \E k \in 1..Len(tool.poms) :
          LET p == tool.heap[tool.poms[k]]
          IN  \E n \in 1..Len(p.Dependencies) :
                 /\ Content(p.PomFile).Dependencies[n].Type = ""
                 /\ \E q \in Providers(p.Dependencies[n]) :
                       q > p.PomFile /\ PackagingOfFile(q) = "aar"
                 /\ p.Dependencies[n].Type = "aar"

\* no POM of the directory has the dependency's module name
C26_WitnessAbsent ==
    /\ Fixed
    /\ \E k \in 1..Len(tool.poms) :
          LET p == tool.heap[tool.poms[k]]
          IN  \E n \in 1..Len(p.Dependencies) :
                 /\ Content(p.PomFile).Dependencies[n].Type = ""
                 /\ Content(p.PomFile).Dependencies[n].Scope = ""
                 /\ Providers(p.Dependencies[n]) = {}
                 /\ p.Dependencies[n].Type = "jar"
                 /\ p.Dependencies[n].Scope = "compile"
====
